---- MODULE Spec2Model ----
(***************************************************************************)
(* A model of the llm_client package: the LLMClientFactory dispatch        *)
(* (llm_factory.py), the BaseClient pipeline (llm_client.py), the provider *)
(* mixins (providers/*.py), the prompt templates (clients/*.py) and the    *)
(* Streamlit front end (app.py) with its session state.                    *)
(*                                                                         *)
(* Python strings are sequences of tokens (TLA+ strings).  Text on which   *)
(* the code computes character by character (provider names through        *)
(* str.lower(), page text through strip) is spelled one character per      *)
(* token; a literal of the source that is only ever copied is one token.   *)
(* String concatenation and f-string interpolation are \o.                 *)
(***************************************************************************)
EXTENDS Naturals, Sequences, FiniteSets

VARIABLES
    providers,            \* LLMClientFactory.providers: dict, in insertion order
    available_providers,  \* LLMClientFactory._available_providers: dict name -> bool
    headers,              \* LLMClientFactory.headers
    genai_api_key,        \* the key google.generativeai is configured with (module-wide)
    clients,              \* the clients create_client has returned, oldest first
    session_state,        \* app.py: st.session_state (current_result, history, api_key)
    last                  \* the last call: its arguments, what it did, how it ended

vars ==
    <<providers, available_providers, headers, genai_api_key, clients,
      session_state, last>>

\* ------------------------------------------------------------------ bounds

\* The number of live clients the pipeline specification keeps.
MaxLive == 1

\* The number of clients that live side by side on one factory.
MaxShared == 2

\* ------------------------------------------------------------ Python values

PyStr(s) == [ty |-> "str", v |-> s]

PyNone == [ty |-> "NoneType", v |-> <<>>]

\* Python truthiness of a str or None (`if not api_key`).
Falsy(x) == x.ty = "NoneType" \/ (x.ty = "str" /\ x.v = <<>>)

RECURSIVE Join(_, _)
\* sep.join(parts), parts a sequence of strings.
Join(parts, sep) ==
    IF parts = <<>> THEN <<>>
    ELSE IF Len(parts) = 1 THEN parts[1]
    ELSE parts[1] \o sep \o Join(Tail(parts), sep)

\* The token t occurs in the string s.
HasToken(s, t) == \E i \in DOMAIN s : s[i] = t

\* The string part occurs in the string s (Python's `part in s`).
Contains(s, part) ==
    \E i \in 0..(Len(s) - Len(part)) :
        \A j \in 1..Len(part) : s[i + j] = part[j]

\* ------------------------------------------------------------- str.lower()

LowerLetters == <<"a", "c", "e", "g", "h", "i", "l", "m", "n", "o", "p", "r", "t">>

UpperLetters == <<"A", "C", "E", "G", "H", "I", "L", "M", "N", "O", "P", "R", "T">>

LowerChar(c) ==
    IF \E i \in DOMAIN UpperLetters : UpperLetters[i] = c
    THEN LowerLetters[CHOOSE i \in DOMAIN UpperLetters : UpperLetters[i] = c]
    ELSE c

UpperChar(c) ==
    IF \E i \in DOMAIN LowerLetters : LowerLetters[i] = c
    THEN UpperLetters[CHOOSE i \in DOMAIN LowerLetters : LowerLetters[i] = c]
    ELSE c

\* provider.lower()
Lower(s) == [i \in DOMAIN s |-> LowerChar(s[i])]

\* ------------------------------------------------------------ the registry

OPENAI == <<"o", "p", "e", "n", "a", "i">>

ANTHROPIC == <<"a", "n", "t", "h", "r", "o", "p", "i", "c">>

GOOGLE == <<"g", "o", "o", "g", "l", "e">>

OLLAMA == <<"o", "l", "l", "a", "m", "a">>

UserAgent ==
    <<"Mozilla/5.0 (Windows NT 10.0; Win64; x64) AppleWebKit/537.36 (KHTML, like Gecko) Chrome/117.0.0.0 Safari/537.36">>

FactoryHeaders == [name \in {"User-Agent"} |-> UserAgent]

\* self.providers as __init__ builds it.
InitialProviders ==
    << [key |-> OPENAI, method |-> "_create_openai_client"],
       [key |-> ANTHROPIC, method |-> "_create_anthropic_client"],
       [key |-> GOOGLE, method |-> "_create_google_client"] >>

\* dict.keys(), in insertion order.
Keys(d) == [i \in DOMAIN d |-> d[i].key]

KeySet(d) == {d[i].key : i \in DOMAIN d}

\* d[k] for a key the dict holds.
Lookup(d, k) == d[CHOOSE i \in DOMAIN d : d[i].key = k].method

\* _get_installed_providers: one flag per registered provider, set by the
\* find_spec probes.  `installed` is the set of importable packages.
GetInstalledProviders(installed) ==
    [p \in {OPENAI, ANTHROPIC, GOOGLE} |-> p \in installed]

\* The module imports openai at its top, so a factory exists only where
\* that package is installed; anthropic and google.generativeai are optional.
Installations == {{OPENAI} \cup opt : opt \in SUBSET {ANTHROPIC, GOOGLE}}

\* The keys of the client_classes dict of each creation method, in order.
ClientClasses ==
    << <<"summarizer">>, <<"content_extractor">>,
       <<"sentiment_analyzer">>, <<"seo_analyzer">> >>

ClientTypes == {ClientClasses[i] : i \in DOMAIN ClientClasses}

\* ------------------------------------------------------------------ kwargs

\* kwargs.get(k, default)
Get(kwargs, k, default) == IF k \in DOMAIN kwargs THEN kwargs[k] ELSE default

NoClient == [cls |-> "none"]

Raise(exc, msg, events, genai) ==
    [raised |-> TRUE, exc |-> exc, msg |-> msg, ret |-> NoClient,
     events |-> events, genai |-> genai]

Return(client, events, genai) ==
    [raised |-> FALSE, exc |-> "none", msg |-> <<>>, ret |-> client,
     events |-> events, genai |-> genai]

UnknownClientType(client_type) ==
    <<"Unknown client type: ">> \o client_type.v \o <<". Available types: ">>
        \o Join(ClientClasses, <<", ">>)

\* client_class(model=model, client=<sdk handle>, headers=self.headers)
NewClient(provider, client_type, model, handle, hdrs) ==
    [cls |-> "client", provider |-> provider, client_type |-> client_type.v,
     model |-> model, client |-> handle, headers |-> hdrs]

\* ------------------------------------------------- the creation methods

DefaultOpenAIModel == <<"gpt-4o-mini">>

DefaultAnthropicModel == <<"claude-3-haiku-20240307">>

DefaultGoogleModel == <<"gemini-pro">>

\* A creation method that builds the SDK handle before it looks at the key.
CreateOpenAIClientKeyUnchecked(kwargs, hdrs, avail, genai) ==
    LET model == Get(kwargs, "model", PyStr(DefaultOpenAIModel))
        api_key == Get(kwargs, "api_key", PyNone)
        client_type == Get(kwargs, "client_type", PyStr(<<"summarizer">>))
    IN  IF client_type.v \in ClientTypes
        THEN Return(NewClient(OPENAI, client_type, model,
                              [sdk |-> "OpenAI", api_key |-> api_key], hdrs),
                    <<"sdk:OpenAI">>, genai)
        ELSE Raise("ValueError", UnknownClientType(client_type), <<>>, genai)

\* _create_openai_client
CreateOpenAIClient(kwargs, hdrs, avail, genai) ==
    LET model == Get(kwargs, "model", PyStr(DefaultOpenAIModel))
        api_key == Get(kwargs, "api_key", PyNone)
        client_type == Get(kwargs, "client_type", PyStr(<<"summarizer">>))
    IN  IF Falsy(api_key)
        THEN Raise("ValueError", <<"OpenAI", " API key is required">>, <<>>, genai)
        ELSE IF client_type.v \in ClientTypes
        THEN Return(NewClient(OPENAI, client_type, model,
                              [sdk |-> "OpenAI", api_key |-> api_key], hdrs),
                    <<"sdk:OpenAI">>, genai)
        ELSE Raise("ValueError", UnknownClientType(client_type), <<>>, genai)

\* A creation method that looks at the client_type before the key.
CreateAnthropicClientTypeFirst(kwargs, hdrs, avail, genai) ==
    LET model == Get(kwargs, "model", PyStr(DefaultAnthropicModel))
        api_key == Get(kwargs, "api_key", PyNone)
        client_type == Get(kwargs, "client_type", PyStr(<<"summarizer">>))
    IN  IF ~avail[ANTHROPIC]
        THEN Raise("ImportError",
                   <<"Anthropic package is not installed. Please install it with 'pip install anthropic'">>,
                   <<>>, genai)
        ELSE IF client_type.v \notin ClientTypes
        THEN Raise("ValueError", UnknownClientType(client_type), <<>>, genai)
        ELSE IF Falsy(api_key)
        THEN Raise("ValueError", <<"Anthropic", " API key is required">>, <<>>, genai)
        ELSE Return(NewClient(ANTHROPIC, client_type, model,
                              [sdk |-> "Anthropic", api_key |-> api_key], hdrs),
                    <<"sdk:Anthropic">>, genai)

\* _create_anthropic_client
CreateAnthropicClient(kwargs, hdrs, avail, genai) ==
    LET model == Get(kwargs, "model", PyStr(DefaultAnthropicModel))
        api_key == Get(kwargs, "api_key", PyNone)
        client_type == Get(kwargs, "client_type", PyStr(<<"summarizer">>))
    IN  IF ~avail[ANTHROPIC]
        THEN Raise("ImportError",
                   <<"Anthropic package is not installed. Please install it with 'pip install anthropic'">>,
                   <<>>, genai)
        ELSE IF Falsy(api_key)
        THEN Raise("ValueError", <<"Anthropic", " API key is required">>, <<>>, genai)
        ELSE IF client_type.v \in ClientTypes
        THEN Return(NewClient(ANTHROPIC, client_type, model,
                              [sdk |-> "Anthropic", api_key |-> api_key], hdrs),
                    <<"sdk:Anthropic">>, genai)
        ELSE Raise("ValueError", UnknownClientType(client_type), <<>>, genai)

\* A creation method whose error lists the types it was written with.
CreateGoogleClientStaleList(kwargs, hdrs, avail, genai) ==
    LET api_key == Get(kwargs, "api_key", PyNone)
        client_type == Get(kwargs, "client_type", PyStr(<<"summarizer">>))
    IN  IF ~avail[GOOGLE]
        THEN Raise("ImportError",
                   <<"Google Generative AI package is not installed. Please install it with 'pip install google-generativeai'">>,
                   <<>>, genai)
        ELSE IF Falsy(api_key)
        THEN Raise("ValueError", <<"Google", " API key is required">>, <<>>, genai)
        ELSE IF client_type.v \in ClientTypes
        THEN Return(NewClient(GOOGLE, client_type,
                              Get(kwargs, "model", PyStr(DefaultGoogleModel)),
                              [sdk |-> "genai", api_key |-> PyNone], hdrs),
                    <<"sdk:genai.configure">>, api_key)
        ELSE Raise("ValueError",
                   <<"Unknown client type: ">> \o client_type.v
                       \o <<". Available types: ">>
                       \o Join(<< <<"summarizer">>, <<"content_extractor">> >>, <<", ">>),
                   <<"sdk:genai.configure">>, api_key)

\* _create_google_client.  genai.configure(api_key=...) sets the key of the
\* google.generativeai module itself; the client holds the module.
CreateGoogleClient(kwargs, hdrs, avail, genai) ==
    LET model == Get(kwargs, "model", PyStr(DefaultGoogleModel))
        api_key == Get(kwargs, "api_key", PyNone)
        client_type == Get(kwargs, "client_type", PyStr(<<"summarizer">>))
    IN  IF ~avail[GOOGLE]
        THEN Raise("ImportError",
                   <<"Google Generative AI package is not installed. Please install it with 'pip install google-generativeai'">>,
                   <<>>, genai)
        ELSE IF Falsy(api_key)
        THEN Raise("ValueError", <<"Google", " API key is required">>, <<>>, genai)
        ELSE IF client_type.v \in ClientTypes
        THEN Return(NewClient(GOOGLE, client_type, model,
                              [sdk |-> "genai", api_key |-> PyNone], hdrs),
                    <<"sdk:genai.configure">>, api_key)
        ELSE Raise("ValueError", UnknownClientType(client_type),
                   <<"sdk:genai.configure">>, api_key)

\* self.providers[provider_key](**kwargs)
CallMethod(method, kwargs, hdrs, avail, genai) ==
    CASE method = "_create_openai_client" -> CreateOpenAIClient(kwargs, hdrs, avail, genai)
      [] method = "_create_anthropic_client" -> CreateAnthropicClient(kwargs, hdrs, avail, genai)
      [] method = "_create_google_client" -> CreateGoogleClient(kwargs, hdrs, avail, genai)

UnknownProvider(provider, provs) ==
    <<"Unknown provider: ">> \o provider \o <<". Available providers: ">>
        \o Join(Keys(provs), <<", ">>)

\* create_client with the list of providers written out instead of read
\* from the registry.
CreateClientResultFixedList(provider, kwargs, provs, avail, hdrs, genai) ==
    LET provider_key == Lower(provider)
    IN  IF provider_key \in KeySet(provs)
        THEN IF provider_key \notin DOMAIN avail
             THEN Raise("KeyError", provider_key, <<>>, genai)
             ELSE IF ~avail[provider_key]
             THEN Raise("ImportError",
                        <<"The ">> \o provider_key
                            \o <<" package is not installed. Please install it first.">>,
                        <<>>, genai)
             ELSE CallMethod(Lookup(provs, provider_key), kwargs, hdrs, avail, genai)
        ELSE Raise("ValueError", UnknownProvider(provider, InitialProviders), <<>>, genai)

\* create_client
CreateClientResult(provider, kwargs, provs, avail, hdrs, genai) ==
    LET provider_key == Lower(provider)
    IN  IF provider_key \in KeySet(provs)
        THEN IF provider_key \notin DOMAIN avail
             THEN Raise("KeyError", provider_key, <<>>, genai)
             ELSE IF ~avail[provider_key]
             THEN Raise("ImportError",
                        <<"The ">> \o provider_key
                            \o <<" package is not installed. Please install it first.">>,
                        <<>>, genai)
             ELSE CallMethod(Lookup(provs, provider_key), kwargs, hdrs, avail, genai)
        ELSE Raise("ValueError", UnknownProvider(provider, provs), <<>>, genai)

\* --------------------------------------------------------------- inputs

Optional(name, values) ==
    {<<>>} \cup {[k \in {name} |-> v] : v \in values}

\* The keyword arguments of a call, built from one optional entry each.
Kwargs(models, keys, types) ==
    {[k \in (DOMAIN m) \cup (DOMAIN a) \cup (DOMAIN t) |->
        IF k \in DOMAIN m THEN m[k] ELSE IF k \in DOMAIN a THEN a[k] ELSE t[k]] :
        m \in models, a \in keys, t \in types}

\* ----------------------------------------------------------------- state

Idle == [op |-> "none"]

\* st.session_state once initialize_session_state has run in a new session.
InitialSessionState ==
    [current_result |-> PyStr(<<>>), history |-> <<>>, api_key |-> PyStr(<<>>)]

Init ==
    /\ providers = InitialProviders
    /\ \E installed \in Installations :
           available_providers = GetInstalledProviders(installed)
    /\ headers = FactoryHeaders
    /\ genai_api_key = PyNone
    /\ clients = <<>>
    /\ session_state = InitialSessionState
    /\ last = Idle

\* One call factory.create_client(provider, **kwargs).
create_client(provider, kwargs) ==
    LET out == CreateClientResult(provider, kwargs, providers,
                                  available_providers, headers, genai_api_key)
    IN  /\ genai_api_key' = out.genai
        /\ clients' = IF out.raised THEN clients ELSE Append(clients, out.ret)
        /\ last' = [op |-> "create_client", provider |-> provider,
                    kwargs |-> kwargs, out |-> out]
        /\ UNCHANGED <<providers, available_providers, headers, session_state>>

\* ------------------------------------------- BeautifulSoup's parse tree

\* A parsed document is [title, body]: each either Absent or a tag, a tag
\* being [t |-> "tag", name, contents] with contents a sequence of tags and
\* of text nodes [t |-> "text", s].
Absent == [t |-> "absent"]

Text(s) == [t |-> "text", s |-> s]

Tag(name, contents) == [t |-> "tag", name |-> name, contents |-> contents]

RECURSIVE TagString(_)
\* Tag.string: the single text child, or the .string of the single tag
\* child; None for no child or several.
TagString(tag) ==
    IF Len(tag.contents) # 1 THEN PyNone
    ELSE IF tag.contents[1].t = "text" THEN PyStr(tag.contents[1].s)
    ELSE TagString(tag.contents[1])

Irrelevant == {"script", "style", "img", "input"}

RECURSIVE Decompose(_, _)
\* The contents left once every descendant tag named in `names` is
\* decomposed.
Decompose(contents, names) ==
    IF contents = <<>> THEN <<>>
    ELSE LET n == Head(contents)
             rest == Decompose(Tail(contents), names)
         IN  IF n.t = "text" THEN <<n>> \o rest
             ELSE IF n.name \in names THEN rest
             ELSE <<Tag(n.name, Decompose(n.contents, names))>> \o rest

RECURSIVE AllStrings(_)
\* The text nodes below, in document order.
AllStrings(contents) ==
    IF contents = <<>> THEN <<>>
    ELSE LET n == Head(contents)
         IN  (IF n.t = "text" THEN <<n.s>> ELSE AllStrings(n.contents))
                 \o AllStrings(Tail(contents))

Whitespace == {" ", "\n", "\t"}

RECURSIVE LStrip(_)
LStrip(s) == IF s # <<>> /\ Head(s) \in Whitespace THEN LStrip(Tail(s)) ELSE s

RECURSIVE RStrip(_)
RStrip(s) ==
    IF s # <<>> /\ s[Len(s)] \in Whitespace
    THEN RStrip(SubSeq(s, 1, Len(s) - 1)) ELSE s

\* str.strip()
Strip(s) == RStrip(LStrip(s))

RECURSIVE NonEmpty(_)
NonEmpty(ss) ==
    IF ss = <<>> THEN <<>>
    ELSE (IF Head(ss) = <<>> THEN <<>> ELSE <<Head(ss)>>) \o NonEmpty(Tail(ss))

\* Tag.get_text(separator="\n", strip=True)
GetText(tag) ==
    Join(NonEmpty([i \in DOMAIN AllStrings(tag.contents) |->
                      Strip(AllStrings(tag.contents)[i])]),
         <<"\n">>)

\* ------------------------------------------------ fetch_website_content

\* What the network answers to one GET: requests.get raising
\* ([kind |-> "neterr", msg]), or a response [kind |-> "response", status,
\* parse], parse being either the tree html.parser builds of the body or
\* [t |-> "parse_error", msg] where BeautifulSoup raises.

\* Response.raise_for_status(): HTTPError for a 4xx or a 5xx status.
RaisesForStatus(status) == 400 <= status /\ status < 600

HTTPErrorMessage(status) ==
    IF status < 500 THEN <<"Client Error for url">> ELSE <<"Server Error for url">>

WebsiteData(url, title, text) == [url |-> url, title |-> title, text |-> text]

FetchFailed(url, msg) ==
    WebsiteData(url, PyStr(<<"Error">>), PyStr(<<"Failed to fetch website: ">> \o msg))

FetchReturn(data) ==
    [raised |-> FALSE, exc |-> "none", msg |-> <<>>, ret |-> data,
     events |-> <<"requests.get">>]

\* fetch_website_content with the except clause left out.
FetchWebsiteContentUncaught(url, answer) ==
    IF answer.kind = "neterr"
    THEN [raised |-> TRUE, exc |-> "ConnectionError", msg |-> answer.msg,
          ret |-> WebsiteData(url, PyNone, PyNone), events |-> <<"requests.get">>]
    ELSE IF RaisesForStatus(answer.status)
    THEN [raised |-> TRUE, exc |-> "HTTPError", msg |-> HTTPErrorMessage(answer.status),
          ret |-> WebsiteData(url, PyNone, PyNone), events |-> <<"requests.get">>]
    ELSE IF answer.parse.t = "parse_error"
    THEN [raised |-> TRUE, exc |-> "ParserRejectedMarkup", msg |-> answer.parse.msg,
          ret |-> WebsiteData(url, PyNone, PyNone), events |-> <<"requests.get">>]
    ELSE FetchReturn(WebsiteData(url, PyStr(<<"No title found">>),
                                 PyStr(<<"No body content found">>)))

\* BaseClient.fetch_website_content
FetchWebsiteContent(url, answer) ==
    IF answer.kind = "neterr"
    THEN FetchReturn(FetchFailed(url, answer.msg))
    ELSE IF RaisesForStatus(answer.status)
    THEN FetchReturn(FetchFailed(url, HTTPErrorMessage(answer.status)))
    ELSE IF answer.parse.t = "parse_error"
    THEN FetchReturn(FetchFailed(url, answer.parse.msg))
    ELSE LET soup == answer.parse
             title == IF soup.title.t = "tag" THEN TagString(soup.title)
                      ELSE PyStr(<<"No title found">>)
             text == IF soup.body.t = "tag"
                     THEN PyStr(GetText(Tag("body", Decompose(soup.body.contents, Irrelevant))))
                     ELSE PyStr(<<"No body content found">>)
         IN  FetchReturn(WebsiteData(url, title, text))

\* ------------------------------------------------- the prompt templates

\* How an f-string renders a value: str(None) is "None".
Format(x) == IF x.ty = "NoneType" THEN <<"None">> ELSE x.v

\* get_system_prompt of the four client classes.
SystemPrompt(client_type) ==
    CASE client_type = <<"summarizer">> ->
           <<"You are an assistant that analyzes the contents of a website \n                and provides a short summary, ignoring text that might be navigation related. \n                Respond in markdown.">>
      [] client_type = <<"content_extractor">> ->
           <<"You are an assistant that extracts specific information from websites.\n                Extract only the requested information in a structured format.">>
      [] client_type = <<"sentiment_analyzer">> ->
           <<"You are an assistant that analyzes the sentiment of website content.\n                Categorize the sentiment as positive, negative, or neutral and explain why.">>
      [] client_type = <<"seo_analyzer">> ->
           <<"You are an SEO expert analyzing website content. Identify key SEO elements,\n                keywords, and provide recommendations for improvement.">>

Built(prompt) == [raised |-> FALSE, v |-> prompt]

\* get_user_prompt with the extractor tidying target_info (surrounding
\* blanks removed) before it goes into the prompt.
UserPromptTidyTarget(client_type, website_data, args) ==
    IF args = <<>> THEN [raised |-> client_type = <<"content_extractor">>, v |-> <<>>]
    ELSE Built(<<"Extract the following information from this website titled ">>
               \o Format(website_data.title)
               \o <<": \n                ">>
               \o Strip(Format(args[1]))
               \o <<"\n\n                Website content:\n                ">>
               \o Format(website_data.text))

\* get_user_prompt(website_data, *args) of the four client classes.  The
\* extractor's takes target_info as a required positional parameter: called
\* without it, Python raises TypeError before the body runs.
UserPrompt(client_type, website_data, args) ==
    CASE client_type = <<"summarizer">> ->
           Built(<<"You are looking at a website titled ">>
                 \o Format(website_data.title)
                 \o <<". \n                The contents of this website is as follows; \n                please provide a short summary of this website in markdown. \n                If it includes news or announcements, then summarize these too.\n\n                ">>
                 \o Format(website_data.text))
      [] client_type = <<"content_extractor">> ->
           IF args = <<>> THEN [raised |-> TRUE, v |-> <<>>]
           ELSE Built(<<"Extract the following information from this website titled ">>
                 \o Format(website_data.title)
                 \o <<": \n                ">>
                 \o Format(args[1])
                 \o <<"\n\n                Website content:\n                ">>
                 \o Format(website_data.text))
      [] client_type = <<"sentiment_analyzer">> ->
           Built(<<"Analyze the sentiment of this website titled ">>
                 \o Format(website_data.title)
                 \o <<". \n                Is it positive, negative, or neutral? Explain why.\n\n                Content:\n                ">>
                 \o Format(website_data.text))
      [] client_type = <<"seo_analyzer">> ->
           Built(<<"Perform an SEO analysis of this website titled ">>
                 \o Format(website_data.title)
                 \o <<". \n                Identify key keywords, meta information, and content structure.\n\n                Content:\n                ">>
                 \o Format(website_data.text))

MissingTargetInfo ==
    <<"get_user_prompt() missing 1 required positional argument: 'target_info'">>

\* ------------------------------------------------------------- process

\* How one process call ends: what it returned or raised, the calls it made
\* in order, the WebsiteData it fetched and the request it sent.
NoData == [url |-> PyNone, title |-> PyNone, text |-> PyNone]

NoRequest == [sent |-> FALSE]

ProcessRaise(exc, msg, events, data, request) ==
    [raised |-> TRUE, exc |-> exc, msg |-> msg, ret |-> PyNone,
     events |-> events, data |-> data, request |-> request]

ProcessReturn(text, events, data, request) ==
    [raised |-> FALSE, exc |-> "none", msg |-> <<>>, ret |-> text,
     events |-> events, data |-> data, request |-> request]

\* OpenAIClientMixin.process with the page fetched a second time for the
\* user prompt.
OpenAIProcessFetchTwice(client, url, args, answer, backend) ==
    LET fetched == FetchWebsiteContent(url, answer)
        ev1 == <<"fetch_website_content">> \o fetched.events
        user == UserPrompt(client.client_type, fetched.ret, args)
        ev2 == ev1 \o <<"get_system_prompt">> \o ev1 \o <<"get_user_prompt">>
        request == [sent |-> TRUE, api |-> "chat.completions.create",
                    model |-> client.model,
                    messages |-> << [role |-> "system", content |-> SystemPrompt(client.client_type)],
                                    [role |-> "user", content |-> user.v] >>]
    IN  IF user.raised
        THEN ProcessRaise("TypeError", MissingTargetInfo, ev2, fetched.ret, NoRequest)
        ELSE IF backend.kind = "error"
        THEN ProcessRaise(backend.exc, backend.msg, ev2 \o <<"chat.completions.create">>,
                          fetched.ret, request)
        ELSE ProcessReturn(backend.response.choices[1].message.content,
                           ev2 \o <<"chat.completions.create">>, fetched.ret, request)

\* OpenAIClientMixin.process leaving the failure text out of the prompt when
\* the page could not be fetched.
OpenAIProcessBlankOnFetchError(client, url, args, answer, backend) ==
    LET fetched == FetchWebsiteContent(url, answer)
        ev1 == <<"fetch_website_content">> \o fetched.events
        shown == IF fetched.ret.title = PyStr(<<"Error">>)
                 THEN WebsiteData(url, fetched.ret.title, PyStr(<<>>))
                 ELSE fetched.ret
        user == UserPrompt(client.client_type, shown, args)
        ev2 == ev1 \o <<"get_system_prompt", "get_user_prompt">>
        request == [sent |-> TRUE, api |-> "chat.completions.create",
                    model |-> client.model,
                    messages |-> << [role |-> "system", content |-> SystemPrompt(client.client_type)],
                                    [role |-> "user", content |-> user.v] >>]
    IN  IF user.raised
        THEN ProcessRaise("TypeError", MissingTargetInfo, ev2, fetched.ret, NoRequest)
        ELSE IF backend.kind = "error"
        THEN ProcessRaise(backend.exc, backend.msg, ev2 \o <<"chat.completions.create">>,
                          fetched.ret, request)
        ELSE ProcessReturn(backend.response.choices[1].message.content,
                           ev2 \o <<"chat.completions.create">>, fetched.ret, request)

\* OpenAIClientMixin.process with a failure of the completion call turned
\* into text, as the Google mixin does.
OpenAIProcessErrorAsText(client, url, args, answer, backend) ==
    LET fetched == FetchWebsiteContent(url, answer)
        ev1 == <<"fetch_website_content">> \o fetched.events
        user == UserPrompt(client.client_type, fetched.ret, args)
        ev2 == ev1 \o <<"get_system_prompt", "get_user_prompt">>
        request == [sent |-> TRUE, api |-> "chat.completions.create",
                    model |-> client.model,
                    messages |-> << [role |-> "system", content |-> SystemPrompt(client.client_type)],
                                    [role |-> "user", content |-> user.v] >>]
    IN  IF user.raised
        THEN ProcessRaise("TypeError", MissingTargetInfo, ev2, fetched.ret, NoRequest)
        ELSE IF backend.kind = "error"
        THEN ProcessReturn(PyStr(<<"Error", ": ">> \o backend.msg),
                           ev2 \o <<"chat.completions.create">>, fetched.ret, request)
        ELSE ProcessReturn(backend.response.choices[1].message.content,
                           ev2 \o <<"chat.completions.create">>, fetched.ret, request)

\* OpenAIClientMixin.process (BaseClient.process is the same text).
OpenAIProcess(client, url, args, answer, backend) ==
    LET fetched == FetchWebsiteContent(url, answer)
        ev1 == <<"fetch_website_content">> \o fetched.events
        user == UserPrompt(client.client_type, fetched.ret, args)
        ev2 == ev1 \o <<"get_system_prompt", "get_user_prompt">>
        request == [sent |-> TRUE, api |-> "chat.completions.create",
                    model |-> client.model,
                    messages |-> << [role |-> "system", content |-> SystemPrompt(client.client_type)],
                                    [role |-> "user", content |-> user.v] >>]
    IN  IF fetched.raised
        THEN ProcessRaise(fetched.exc, fetched.msg, ev1, NoData, NoRequest)
        ELSE IF user.raised
        THEN ProcessRaise("TypeError", MissingTargetInfo, ev2, fetched.ret, NoRequest)
        ELSE IF backend.kind = "error"
        THEN ProcessRaise(backend.exc, backend.msg, ev2 \o <<"chat.completions.create">>,
                          fetched.ret, request)
        ELSE ProcessReturn(backend.response.choices[1].message.content,
                           ev2 \o <<"chat.completions.create">>, fetched.ret, request)

MaxTokens == 4096

\* AnthropicClientMixin.process giving up when the page could not be fetched.
AnthropicProcessAbortOnFetchError(client, url, args, answer, backend) ==
    LET fetched == FetchWebsiteContent(url, answer)
        ev1 == <<"fetch_website_content">> \o fetched.events
        user == UserPrompt(client.client_type, fetched.ret, args)
        ev2 == ev1 \o <<"get_system_prompt", "get_user_prompt">>
        request == [sent |-> TRUE, api |-> "messages.create",
                    model |-> client.model,
                    system |-> SystemPrompt(client.client_type),
                    messages |-> << [role |-> "user", content |-> user.v] >>,
                    max_tokens |-> 4096]
    IN  IF fetched.ret.title = PyStr(<<"Error">>)
        THEN ProcessRaise("RuntimeError", Format(fetched.ret.text), ev1, fetched.ret, NoRequest)
        ELSE IF user.raised
        THEN ProcessRaise("TypeError", MissingTargetInfo, ev2, fetched.ret, NoRequest)
        ELSE IF backend.kind = "error"
        THEN ProcessRaise(backend.exc, backend.msg, ev2 \o <<"messages.create">>,
                          fetched.ret, request)
        ELSE ProcessReturn(backend.response.content[1].text,
                           ev2 \o <<"messages.create">>, fetched.ret, request)

\* AnthropicClientMixin.process trying the completion call once more when it
\* failed.
AnthropicProcessRetry(client, url, args, answer, backend) ==
    LET fetched == FetchWebsiteContent(url, answer)
        ev1 == <<"fetch_website_content">> \o fetched.events
        user == UserPrompt(client.client_type, fetched.ret, args)
        ev2 == ev1 \o <<"get_system_prompt", "get_user_prompt">>
        request == [sent |-> TRUE, api |-> "messages.create",
                    model |-> client.model,
                    system |-> SystemPrompt(client.client_type),
                    messages |-> << [role |-> "user", content |-> user.v] >>,
                    max_tokens |-> 4096]
    IN  IF user.raised
        THEN ProcessRaise("TypeError", MissingTargetInfo, ev2, fetched.ret, NoRequest)
        ELSE IF backend.kind = "error"
        THEN ProcessRaise(backend.exc, backend.msg,
                          ev2 \o <<"messages.create", "messages.create">>,
                          fetched.ret, request)
        ELSE ProcessReturn(backend.response.content[1].text,
                           ev2 \o <<"messages.create">>, fetched.ret, request)

\* AnthropicClientMixin.process
AnthropicProcess(client, url, args, answer, backend) ==
    LET fetched == FetchWebsiteContent(url, answer)
        ev1 == <<"fetch_website_content">> \o fetched.events
        user == UserPrompt(client.client_type, fetched.ret, args)
        ev2 == ev1 \o <<"get_system_prompt", "get_user_prompt">>
        request == [sent |-> TRUE, api |-> "messages.create",
                    model |-> client.model,
                    system |-> SystemPrompt(client.client_type),
                    messages |-> << [role |-> "user", content |-> user.v] >>,
                    max_tokens |-> MaxTokens]
    IN  IF fetched.raised
        THEN ProcessRaise(fetched.exc, fetched.msg, ev1, NoData, NoRequest)
        ELSE IF user.raised
        THEN ProcessRaise("TypeError", MissingTargetInfo, ev2, fetched.ret, NoRequest)
        ELSE IF backend.kind = "error"
        THEN ProcessRaise(backend.exc, backend.msg, ev2 \o <<"messages.create">>,
                          fetched.ret, request)
        ELSE ProcessReturn(backend.response.content[1].text,
                           ev2 \o <<"messages.create">>, fetched.ret, request)

\* The text GoogleClientMixin.process returns from its except clause.
GoogleErrorText(model, backend) ==
    IF backend.list.ok
    THEN <<"Error", " with Gemini model '">> \o Format(model)
             \o <<"'. Available models: ">> \o Join(backend.list.names, <<", ">>)
             \o <<"\nOriginal error: ">> \o backend.msg
    ELSE <<"Error", " with Gemini model '">> \o Format(model) \o <<"': ">> \o backend.msg

\* GoogleClientMixin.process with the try/except around the remote call
\* left out.
GoogleProcessUncaught(client, url, args, answer, backend) ==
    LET fetched == FetchWebsiteContent(url, answer)
        ev1 == <<"fetch_website_content">> \o fetched.events
        user == UserPrompt(client.client_type, fetched.ret, args)
        ev2 == ev1 \o <<"get_system_prompt", "get_user_prompt">>
        request == [sent |-> TRUE, api |-> "generate_content", model |-> client.model,
                    prompt |-> SystemPrompt(client.client_type) \o <<"\n\n">> \o user.v]
    IN  IF user.raised
        THEN ProcessRaise("TypeError", MissingTargetInfo, ev2, fetched.ret, NoRequest)
        ELSE IF backend.kind = "ok"
        THEN ProcessReturn(backend.response.text,
                           ev2 \o <<"GenerativeModel", "generate_content">>,
                           fetched.ret, request)
        ELSE ProcessRaise(backend.exc, backend.msg, ev2 \o <<"GenerativeModel">>,
                          fetched.ret, NoRequest)

\* GoogleClientMixin.process whose except clause returns the original error
\* without asking the backend for its models.
GoogleProcessNoListing(client, url, args, answer, backend) ==
    LET fetched == FetchWebsiteContent(url, answer)
        ev1 == <<"fetch_website_content">> \o fetched.events
        user == UserPrompt(client.client_type, fetched.ret, args)
        ev2 == ev1 \o <<"get_system_prompt", "get_user_prompt">>
        request == [sent |-> TRUE, api |-> "generate_content", model |-> client.model,
                    prompt |-> SystemPrompt(client.client_type) \o <<"\n\n">> \o user.v]
        tried == IF backend.kind = "error" /\ backend.at = "construct"
                 THEN <<"GenerativeModel">>
                 ELSE <<"GenerativeModel", "generate_content">>
    IN  IF user.raised
        THEN ProcessRaise("TypeError", MissingTargetInfo, ev2, fetched.ret, NoRequest)
        ELSE IF backend.kind = "ok"
        THEN ProcessReturn(backend.response.text, ev2 \o tried, fetched.ret, request)
        ELSE ProcessReturn(PyStr(<<"Error", " with Gemini model '">> \o Format(client.model)
                                     \o <<"': ">> \o backend.msg),
                           ev2 \o tried, fetched.ret,
                           IF backend.at = "construct" THEN NoRequest ELSE request)

\* GoogleClientMixin.process.  The remote step fails in GenerativeModel(...)
\* (backend.at = "construct"), in generate_content ("generate") or on reading
\* response.text ("text"); every such failure lands in the except clause,
\* which asks the backend for its models.
GoogleProcess(client, url, args, answer, backend) ==
    LET fetched == FetchWebsiteContent(url, answer)
        ev1 == <<"fetch_website_content">> \o fetched.events
        user == UserPrompt(client.client_type, fetched.ret, args)
        ev2 == ev1 \o <<"get_system_prompt", "get_user_prompt">>
        request == [sent |-> TRUE, api |-> "generate_content", model |-> client.model,
                    prompt |-> SystemPrompt(client.client_type) \o <<"\n\n">> \o user.v]
        tried == IF backend.kind = "error" /\ backend.at = "construct"
                 THEN <<"GenerativeModel">>
                 ELSE <<"GenerativeModel", "generate_content">>
    IN  IF fetched.raised
        THEN ProcessRaise(fetched.exc, fetched.msg, ev1, NoData, NoRequest)
        ELSE IF user.raised
        THEN ProcessRaise("TypeError", MissingTargetInfo, ev2, fetched.ret, NoRequest)
        ELSE IF backend.kind = "ok"
        THEN ProcessReturn(backend.response.text, ev2 \o tried, fetched.ret, request)
        ELSE ProcessReturn(PyStr(GoogleErrorText(client.model, backend)),
                           ev2 \o tried \o <<"list_models">>, fetched.ret,
                           IF backend.at = "construct" THEN NoRequest ELSE request)

\* client.process(url, *args): the mixin first in the class's bases.
ProcessResult(client, url, args, answer, backend) ==
    CASE client.provider = OPENAI -> OpenAIProcess(client, url, args, answer, backend)
      [] client.provider = ANTHROPIC -> AnthropicProcess(client, url, args, answer, backend)
      [] client.provider = GOOGLE -> GoogleProcess(client, url, args, answer, backend)

\* One call clients[i].process(url, *args).
process(i, url, args, answer, backend) ==
    /\ last' = [op |-> "process", client |-> i, url |-> url, args |-> args,
                answer |-> answer, backend |-> backend,
                out |-> ProcessResult(clients[i], url, args, answer, backend)]
    /\ UNCHANGED <<providers, available_providers, headers, genai_api_key, clients,
                 session_state>>

\* One call clients[i].fetch_website_content(url).
fetch_website_content(i, url, answer) ==
    /\ last' = [op |-> "fetch_website_content", client |-> i, url |-> url,
                answer |-> answer, out |-> FetchWebsiteContent(url, answer)]
    /\ UNCHANGED <<providers, available_providers, headers, genai_api_key, clients,
                 session_state>>

\* One call clients[i].get_user_prompt(website_data, *args).
get_user_prompt(i, website_data, args) ==
    /\ last' = [op |-> "get_user_prompt", client |-> i,
                website_data |-> website_data, args |-> args,
                out |-> UserPrompt(clients[i].client_type, website_data, args)]
    /\ UNCHANGED <<providers, available_providers, headers, genai_api_key, clients,
                 session_state>>

\* ---------------------------------------------------------- the listings

\* How a listing call ends: the list it returned, or the error it raised.
ListReturn(list) == [raised |-> FALSE, exc |-> "none", msg |-> <<>>, ret |-> list]

ListRaise(exc, msg) == [raised |-> TRUE, exc |-> exc, msg |-> msg, ret |-> <<>>]

\* get_available_providers: the keys of _available_providers whose flag is
\* set, in the order of the dict, which is the order of the registry at
\* construction.
GetAvailableProviders(avail) ==
    SelectSeq(Keys(InitialProviders), LAMBDA p : p \in DOMAIN avail /\ avail[p])

OpenAIModels == << <<"gpt-4o-mini">>, <<"gpt-4o">>, <<"gpt-3.5-turbo">> >>

AnthropicModels ==
    << <<"claude-3-opus-20240229">>, <<"claude-3-sonnet-20240229">>,
       <<"claude-3-haiku-20240307">> >>

GoogleModels == << <<"gemini-1.0-pro">>, <<"gemini-1.5-pro">>, <<"gemini-1.5-flash">> >>

\* get_available_models with a list for ollama as well.
GetAvailableModelsWithOllama(provider) ==
    LET provider_key == Lower(provider)
    IN  IF provider_key = OPENAI THEN ListReturn(OpenAIModels)
        ELSE IF provider_key = ANTHROPIC THEN ListReturn(AnthropicModels)
        ELSE IF provider_key = GOOGLE THEN ListReturn(GoogleModels)
        ELSE IF provider_key = OLLAMA THEN ListReturn(<< <<"llama3.2">> >>)
        ELSE ListRaise("ValueError", <<"Unknown provider: ">> \o provider)

\* get_available_models
GetAvailableModels(provider) ==
    LET provider_key == Lower(provider)
    IN  IF provider_key = OPENAI THEN ListReturn(OpenAIModels)
        ELSE IF provider_key = ANTHROPIC THEN ListReturn(AnthropicModels)
        ELSE IF provider_key = GOOGLE THEN ListReturn(GoogleModels)
        ELSE ListRaise("ValueError", <<"Unknown provider: ">> \o provider)

\* get_available_client_types
GetAvailableClientTypes ==
    << <<"summarizer">>, <<"content_extractor">>, <<"sentiment_analyzer">>,
       <<"seo_analyzer">> >>

\* One call factory.get_available_providers().
get_available_providers ==
    /\ last' = [op |-> "get_available_providers",
                out |-> ListReturn(GetAvailableProviders(available_providers))]
    /\ UNCHANGED <<providers, available_providers, headers, genai_api_key, clients,
                 session_state>>

\* One call factory.get_available_models(provider).
get_available_models(provider) ==
    /\ last' = [op |-> "get_available_models", provider |-> provider,
                out |-> GetAvailableModels(provider)]
    /\ UNCHANGED <<providers, available_providers, headers, genai_api_key, clients,
                 session_state>>

\* One call factory.get_available_client_types().
get_available_client_types ==
    /\ last' = [op |-> "get_available_client_types",
                out |-> ListReturn(GetAvailableClientTypes)]
    /\ UNCHANGED <<providers, available_providers, headers, genai_api_key, clients,
                 session_state>>

\* ---------------------------------------------------- registry updates

\* factory.providers[key] = method: a new key goes last, a known key keeps
\* its place.
SetItem(d, key, method) ==
    IF key \in KeySet(d)
    THEN [i \in DOMAIN d |-> IF d[i].key = key THEN [key |-> key, method |-> method] ELSE d[i]]
    ELSE Append(d, [key |-> key, method |-> method])

RECURSIVE DelItem(_, _)
\* del factory.providers[key]
DelItem(d, key) ==
    IF d = <<>> THEN <<>>
    ELSE IF Head(d).key = key THEN Tail(d)
    ELSE <<Head(d)>> \o DelItem(Tail(d), key)

providers_setitem(key, method) ==
    /\ providers' = SetItem(providers, key, method)
    /\ last' = [op |-> "providers.__setitem__", key |-> key]
    /\ UNCHANGED <<available_providers, headers, genai_api_key, clients, session_state>>

providers_delitem(key) ==
    /\ key \in KeySet(providers)
    /\ providers' = DelItem(providers, key)
    /\ last' = [op |-> "providers.__delitem__", key |-> key]
    /\ UNCHANGED <<available_providers, headers, genai_api_key, clients, session_state>>

\* --------------------------------------------------------------- app.py

\* What one run of the script last put on the page.
NothingShown == [kind |-> "none", text |-> <<>>]

ShowError(text) == [kind |-> "error", text |-> text]

ShowSuccess(text) == [kind |-> "success", text |-> text]

ShowMarkdown(text) == [kind |-> "markdown", text |-> text]

\* The buttons of the four analysis tabs, and the client_type each tab asks
\* the factory for.
TabButtons == {"summarizer_btn", "extractor_btn", "sentiment_btn", "seo_btn"}

TabClientType(button) ==
    CASE button = "summarizer_btn" -> <<"summarizer">>
      [] button = "extractor_btn" -> <<"content_extractor">>
      [] button = "sentiment_btn" -> <<"sentiment_analyzer">>
      [] button = "seo_btn" -> <<"seo_analyzer">>

\* The start of the text a tab's except clause shows, before str(e).
TabErrorPrefix(button) ==
    CASE button = "summarizer_btn" -> "Error generating summary: "
      [] button = "extractor_btn" -> "Error extracting content: "
      [] button = "sentiment_btn" -> "Error analyzing sentiment: "
      [] button = "seo_btn" -> "Error analyzing SEO: "

\* render_sidebar: a non-empty key is saved to the session; the Clear
\* History button empties the history and the current result.
RenderSidebar(session, api_key, clear) ==
    LET keyed == IF Falsy(api_key) THEN session
                 ELSE [session EXCEPT !.api_key = api_key]
    IN  IF clear
        THEN [keyed EXCEPT !.history = <<>>, !.current_result = PyStr(<<>>)]
        ELSE keyed

\* How a tab's run ends: the session state it leaves, what it shows, and the
\* calls it made in order.
TabOutcome(session, shown, events) ==
    [session |-> session, shown |-> shown, events |-> events]

\* The entry a tab appends to st.session_state.history.
HistoryEntry(url, model, client_type, result) ==
    [url |-> url, model |-> model, client_type |-> PyStr(client_type),
     result |-> result]

\* A tab that hands the key of the sidebar to create_client.
RenderTabPassingKey(button, session, api_key, model, url, targets, avail, genai, answer, backend) ==
    LET client_type == TabClientType(button)
        kwargs == [k \in {"model", "client_type", "api_key"} |->
                      CASE k = "model" -> model
                        [] k = "client_type" -> PyStr(client_type)
                        [] k = "api_key" -> api_key]
        created == CreateClientResult(OPENAI, kwargs, InitialProviders, avail,
                                      FactoryHeaders, genai)
        args == IF button = "extractor_btn" THEN <<targets>> ELSE <<>>
        processed == ProcessResult(created.ret, url, args, answer, backend)
        ev1 == <<"create_factory", "create_client">> \o created.events
        ev2 == ev1 \o <<"process">> \o processed.events
    IN  IF ~Falsy(url) /\ ~Falsy(api_key)
        THEN IF created.raised
             THEN TabOutcome(session, ShowError(<<TabErrorPrefix(button)>> \o created.msg), ev1)
             ELSE IF processed.raised
             THEN TabOutcome(session, ShowError(<<TabErrorPrefix(button)>> \o processed.msg), ev2)
             ELSE TabOutcome(
                      [session EXCEPT
                          !.current_result = processed.ret,
                          !.history = Append(@, HistoryEntry(url, model, client_type,
                                                             processed.ret))],
                      ShowMarkdown(Format(processed.ret)), ev2)
        ELSE IF Falsy(api_key)
        THEN TabOutcome(session,
                        ShowError(<<"Please enter your OpenAI API key in the sidebar.">>),
                        <<>>)
        ELSE TabOutcome(session, NothingShown, <<>>)

\* render_summarizer_tab, render_extractor_tab, render_sentiment_tab and
\* render_seo_tab in the run in which the tab's button was clicked: the four
\* are one text but for the client_type, the error prefix and the extractor's
\* extra argument to process.  create_factory builds a new factory, so the
\* registry and the headers are those of __init__.
RenderTab(button, session, api_key, model, url, targets, avail, genai, answer, backend) ==
    LET client_type == TabClientType(button)
        kwargs == [k \in {"model", "client_type"} |->
                      IF k = "model" THEN model ELSE PyStr(client_type)]
        created == CreateClientResult(OPENAI, kwargs, InitialProviders, avail,
                                      FactoryHeaders, genai)
        \* client.client.api_key = api_key
        client == [created.ret EXCEPT !.client.api_key = api_key]
        args == IF button = "extractor_btn" THEN <<targets>> ELSE <<>>
        processed == ProcessResult(client, url, args, answer, backend)
        ev1 == <<"create_factory", "create_client">> \o created.events
        ev2 == ev1 \o <<"process">> \o processed.events
    IN  IF ~Falsy(url) /\ ~Falsy(api_key)
        THEN IF created.raised
             THEN TabOutcome(session, ShowError(<<TabErrorPrefix(button)>> \o created.msg), ev1)
             ELSE IF processed.raised
             THEN TabOutcome(session, ShowError(<<TabErrorPrefix(button)>> \o processed.msg), ev2)
             ELSE TabOutcome(
                      [session EXCEPT
                          !.current_result = processed.ret,
                          !.history = Append(@, HistoryEntry(url, model, client_type,
                                                             processed.ret))],
                      ShowMarkdown(Format(processed.ret)), ev2)
        ELSE IF Falsy(api_key)
        THEN TabOutcome(session,
                        ShowError(<<"Please enter your OpenAI API key in the sidebar.">>),
                        <<>>)
        ELSE TabOutcome(session, NothingShown, <<>>)

\* One run of the script, main(): the sidebar with the key and the model the
\* widgets hold, then the tab whose button started the run (`clicked`, "none"
\* for a run a changed widget started).
main(api_key, model, clicked, url, targets, answer, backend) ==
    LET sidebar == RenderSidebar(session_state, api_key, clicked = "Clear History")
        out == IF clicked \in TabButtons
               THEN RenderTab(clicked, sidebar, api_key, model, url, targets,
                              available_providers, genai_api_key, answer, backend)
               ELSE IF clicked = "Clear History"
               THEN TabOutcome(sidebar, ShowSuccess(<<"History cleared!">>), <<>>)
               ELSE TabOutcome(sidebar, NothingShown, <<>>)
    IN  /\ session_state' = out.session
        /\ last' = [op |-> "main", clicked |-> clicked, api_key |-> api_key,
                    model |-> model, url |-> url, targets |-> targets,
                    answer |-> answer, backend |-> backend, out |-> out]
        /\ UNCHANGED <<providers, available_providers, headers, genai_api_key, clients>>

\* ------------------------------------------------------- input values

\* s in upper case.
Upper(s) == [i \in DOMAIN s |-> UpperChar(s[i])]

\* s with the letters at the positions in `at` in upper case.
Cased(s, at) == [i \in DOMAIN s |-> IF i \in at THEN UpperChar(s[i]) ELSE s[i]]

FourNames == {OPENAI, ANTHROPIC, GOOGLE, OLLAMA}

AZURE == <<"a", "z", "u", "r", "e">>

ProviderInputs ==
    FourNames \cup {Cased(OPENAI, {1, 5, 6}), Upper(GOOGLE), AZURE}

Bogus == <<"bogus">>

KwargsInputs ==
    Kwargs({<<>>},
           Optional("api_key", {PyStr(<<>>), PyStr(<<"k1">>)}),
           Optional("client_type", {PyStr(t) : t \in ClientTypes \cup {Bogus}}))

\* The calls the pipeline specification creates its clients with.
PipelineKwargs ==
    {[k \in {"model", "api_key", "client_type"} |->
        CASE k = "model" -> PyStr(<<"m1">>)
          [] k = "api_key" -> PyStr(<<"k1">>)
          [] k = "client_type" -> PyStr(t)] : t \in ClientTypes}

SiteTest == PyStr(<<"http://site.test">>)

Urls == {SiteTest, PyStr(<<"https://example.com">>)}

\* process(url) and process(url, target_info)
ArgsInputs == {<<>>, <<PyStr(<<"company name">>)>>}

NetErr(msg) == [kind |-> "neterr", msg |-> msg]

Response(status, parse) == [kind |-> "response", status |-> status, parse |-> parse]

Soup(title, body) == [t |-> "soup", title |-> title, body |-> body]

ParseError == [t |-> "parse_error", msg |-> <<"markup rejected">>]

TitleInputs ==
    { Absent,
      Tag("title", <<>>),
      Tag("title", <<Text(<<"A", "c", "m", "e">>)>>),
      Tag("title", <<Tag("b", <<Text(<<"A", "c", "m", "e">>)>>)>>),
      Tag("title", <<Text(<<"A">>), Tag("b", <<Text(<<"c">>)>>)>>) }

BodyInputs ==
    { Absent,
      Tag("body", <<>>),
      Tag("body", <<Text(<<" ", "A", " ">>), Tag("script", <<Text(<<"x">>)>>),
                    Text(<<"B">>), Tag("style", <<Text(<<"y">>)>>), Tag("img", <<>>),
                    Tag("p", <<Text(<<"\n", "C">>), Tag("input", <<>>)>>)>>),
      Tag("body", <<Tag("div", <<Text(<<" ">>), Tag("img", <<>>)>>)>>) }

StatusInputs == {200, 304, 404, 500}

FetchAnswers ==
    {NetErr(<<"Connection refused">>), NetErr(<<"Name or service not known">>)}
        \cup {Response(st, ParseError) : st \in StatusInputs}
        \cup {Response(st, Soup(ti, bo)) :
                 st \in StatusInputs, ti \in TitleInputs, bo \in BodyInputs}

\* The answers the pipeline specification draws from: a refused connection,
\* an HTTP error, and a page.
PipelineAnswers ==
    { NetErr(<<"Connection refused">>),
      Response(404, Soup(Absent, Absent)),
      Response(200, Soup(Tag("title", <<Text(<<"A", "c", "m", "e">>)>>),
                         Tag("body", <<Text(<<"A">>), Tag("script", <<Text(<<"x">>)>>),
                                       Text(<<"B">>)>>))) }

\* What the provider's backend does with one request: it answers with its
\* envelope around `text`, or the SDK raises.
Summary == <<"SUMMARY">>

BackendError == [exc |-> "APIError", msg |-> <<"quota exceeded">>]

OpenAIBackends ==
    { [kind |-> "ok", text |-> Summary,
       response |-> [choices |-> <<[message |-> [content |-> PyStr(Summary)]]>>]],
      [kind |-> "error", exc |-> BackendError.exc, msg |-> BackendError.msg] }

AnthropicBackends ==
    { [kind |-> "ok", text |-> Summary,
       response |-> [content |-> <<[text |-> PyStr(Summary)]>>]],
      [kind |-> "error", exc |-> BackendError.exc, msg |-> BackendError.msg] }

ModelListings ==
    { [ok |-> TRUE, names |-> << <<"models/gemini-1.5-pro">>, <<"models/gemini-1.5-flash">> >>],
      [ok |-> FALSE, names |-> <<>>] }

GoogleBackends ==
    { [kind |-> "ok", text |-> Summary, response |-> [text |-> PyStr(Summary)]] }
        \cup { [kind |-> "error", at |-> at, exc |-> BackendError.exc,
                msg |-> BackendError.msg, list |-> l] :
                 at \in {"construct", "generate"}, l \in ModelListings }

Backends(provider) ==
    CASE provider = OPENAI -> OpenAIBackends
      [] provider = ANTHROPIC -> AnthropicBackends
      [] provider = GOOGLE -> GoogleBackends

\* ------------------------------------------------------ specifications

\* The pipeline: clients of every provider and type, and their process.
CreateClient ==
    /\ Len(clients) < MaxLive
    /\ \E provider \in {OPENAI, ANTHROPIC, GOOGLE}, kwargs \in PipelineKwargs :
           create_client(provider, kwargs)

Process ==
    \E i \in DOMAIN clients, args \in ArgsInputs, answer \in PipelineAnswers :
        \E backend \in Backends(clients[i].provider) :
            process(i, SiteTest, args, answer, backend)

Next == CreateClient \/ Process

Spec == Init /\ [][Next]_vars

\* The factory alone, over every kind of call.
CreateAnyClient ==
    /\ Len(clients) < MaxLive
    /\ \E provider \in ProviderInputs, kwargs \in KwargsInputs :
           create_client(provider, kwargs)

NextFactory == CreateAnyClient

SpecFactory == Init /\ [][NextFactory]_vars

\* fetch_website_content alone, over every answer of the network.
FetchKwargs ==
    {[k \in {"api_key", "client_type"} |->
        IF k = "api_key" THEN PyStr(<<"k1">>) ELSE PyStr(<<"summarizer">>)]}

CreateFetcher ==
    /\ Len(clients) < MaxLive
    /\ \E kwargs \in FetchKwargs : create_client(OPENAI, kwargs)

Fetch ==
    \E i \in DOMAIN clients, url \in Urls, answer \in FetchAnswers :
        fetch_website_content(i, url, answer)

NextFetch == CreateFetcher \/ Fetch

SpecFetch == Init /\ [][NextFetch]_vars

\* The factory with its registry edited between calls.
RegistryKwargs ==
    Kwargs({<<>>}, Optional("api_key", {PyStr(<<"k1">>)}),
           Optional("client_type", {PyStr(Bogus)}))

CreateRegistered ==
    /\ Len(clients) < MaxLive
    /\ \E provider \in FourNames \cup {Upper(OLLAMA), AZURE}, kwargs \in RegistryKwargs :
           create_client(provider, kwargs)

Register == providers_setitem(OLLAMA, "_create_openai_client")

Unregister == \E key \in FourNames : providers_delitem(key)

NextRegistry == CreateRegistered \/ Register \/ Unregister

SpecRegistry == Init /\ [][NextRegistry]_vars

\* The app next to a script that drives the adapters itself.  The widgets
\* hold any of these values when a run starts.
AppKeys == {PyStr(<<>>), PyStr(<<"k1">>), PyStr(<<"k2">>)}

AppModels == {PyStr(<<"gpt-4o-mini">>), PyStr(<<"gpt-4o">>)}

ExampleCom == PyStr(<<"https://example.com">>)

AppUrls == {PyStr(<<>>), ExampleCom}

ExtractionTargets ==
    PyStr(<<"company name, main products, contact information">>)

AppPage ==
    Response(200, Soup(Tag("title", <<Text(<<"A", "c", "m", "e">>)>>),
                       Tag("body", <<Text(<<"A">>)>>)))

AdapterKwargs ==
    {[k \in {"model", "api_key", "client_type"} |->
        CASE k = "model" -> PyStr(<<"m1">>)
          [] k = "api_key" -> PyStr(<<"k1">>)
          [] k = "client_type" -> PyStr(<<"summarizer">>)]}

Rerun ==
    \E api_key \in AppKeys, model \in AppModels :
        main(api_key, model, "none", ExampleCom, ExtractionTargets,
             AppPage, CHOOSE b \in OpenAIBackends : b.kind = "ok")

ClearHistory ==
    \E api_key \in AppKeys, model \in AppModels :
        main(api_key, model, "Clear History", ExampleCom, ExtractionTargets,
             AppPage, CHOOSE b \in OpenAIBackends : b.kind = "ok")

Analyze ==
    \E button \in TabButtons, api_key \in AppKeys, model \in AppModels,
       url \in AppUrls, backend \in OpenAIBackends :
        main(api_key, model, button, url, ExtractionTargets, AppPage, backend)

\* usage_example.py, main(): its first statement.  The call raises, nothing
\* catches it, and the script ends there.
UsageExampleKwargs ==
    [k \in {"model", "client_type"} |->
        IF k = "model" THEN PyStr(<<"gpt-4o-mini">>) ELSE PyStr(<<"summarizer">>)]

UsageExample == create_client(OPENAI, UsageExampleKwargs)

CreateAdapter ==
    /\ Len(clients) < MaxLive
    /\ \E provider \in {OPENAI, ANTHROPIC}, kwargs \in AdapterKwargs :
           create_client(provider, kwargs)

ProcessAdapter ==
    \E i \in DOMAIN clients, answer \in {NetErr(<<"Connection refused">>), AppPage} :
        \E backend \in Backends(clients[i].provider) :
            process(i, SiteTest, <<>>, answer, backend)

NextApp ==
    Rerun \/ ClearHistory \/ Analyze \/ UsageExample \/ CreateAdapter \/ ProcessAdapter

SpecApp == Init /\ [][NextApp]_vars

\* Several clients of one factory side by side, created with different keys.
SharedKwargs ==
    {[k \in {"model", "api_key", "client_type"} |->
        CASE k = "model" -> PyStr(<<"m1">>)
          [] k = "api_key" -> PyStr(key)
          [] k = "client_type" -> PyStr(<<"summarizer">>)] : key \in {<<"k1">>, <<"k2">>}}

CreateShared ==
    /\ Len(clients) < MaxShared
    /\ \E provider \in {OPENAI, GOOGLE}, kwargs \in SharedKwargs :
           create_client(provider, kwargs)

ProcessShared ==
    \E i \in DOMAIN clients, answer \in {NetErr(<<"Connection refused">>), AppPage} :
        \E backend \in Backends(clients[i].provider) :
            process(i, SiteTest, <<>>, answer, backend)

NextShared == CreateShared \/ ProcessShared

SpecShared == Init /\ [][NextShared]_vars

\* The extractor's prompt alone, over every kind of WebsiteData and
\* target_info.
PromptTitles ==
    {PyStr(<<>>), PyStr(<<"A", "c", "m", "e">>), PyStr(<<"Error">>), PyNone}

PromptTexts ==
    { PyStr(<<>>), PyStr(<<"A", "\n", "B">>),
      PyStr(<<"Failed to fetch website: ", "Connection refused">>) }

TargetInfos ==
    { PyStr(<<>>), PyStr(<<"c", "o", "m", "p", "a", "n", "y", " ", "n", "a", "m", "e">>),
      PyStr(<<" ", "C", "E", "O", "\n">>), PyStr(<<"{", "t", "i", "t", "l", "e", "}">>) }

ExtractorKwargs ==
    {[k \in {"api_key", "client_type"} |->
        IF k = "api_key" THEN PyStr(<<"k1">>) ELSE PyStr(<<"content_extractor">>)]}

CreateExtractor ==
    /\ Len(clients) < MaxLive
    /\ \E provider \in {OPENAI, ANTHROPIC, GOOGLE}, kwargs \in ExtractorKwargs :
           create_client(provider, kwargs)

GetUserPrompt ==
    \E i \in DOMAIN clients, title \in PromptTitles, text \in PromptTexts,
       target_info \in TargetInfos :
        get_user_prompt(i, WebsiteData(SiteTest, title, text), <<target_info>>)

NextPrompt == CreateExtractor \/ GetUserPrompt

SpecPrompt == Init /\ [][NextPrompt]_vars

\* The factory with its three listings next to create_client, called with a
\* key and every client_type.
ListingKwargs ==
    Kwargs({<<>>}, {[k \in {"api_key"} |-> PyStr(<<"k1">>)]},
           {[k \in {"client_type"} |-> PyStr(t)] : t \in ClientTypes \cup {Bogus}})

CreateListed ==
    /\ Len(clients) < MaxLive
    /\ \E provider \in ProviderInputs, kwargs \in ListingKwargs :
           create_client(provider, kwargs)

ListProviders == get_available_providers

ListModels == \E provider \in ProviderInputs : get_available_models(provider)

ListClientTypes == get_available_client_types

NextListings == CreateListed \/ ListProviders \/ ListModels \/ ListClientTypes

SpecListings == Init /\ [][NextListings]_vars

\* ============================================================== claims

\* p is n in some letter-casing.
IsCasingOf(p, n) ==
    /\ Len(p) = Len(n)
    /\ \A i \in DOMAIN n : p[i] = n[i] \/ p[i] = UpperChar(n[i])

CredentialProviders == {OPENAI, ANTHROPIC, GOOGLE}

CredentialName(n) ==
    CASE n = OPENAI -> "OpenAI" [] n = ANTHROPIC -> "Anthropic" [] n = GOOGLE -> "Google"

FourTypes ==
    { <<"summarizer">>, <<"content_extractor">>, <<"sentiment_analyzer">>, <<"seo_analyzer">> }

\* The last call was create_client for provider n with no api_key or an
\* empty one.
MissingKeyCall(n) ==
    /\ last.op = "create_client"
    /\ IsCasingOf(last.provider, n)
    /\ Falsy(Get(last.kwargs, "api_key", PyNone))

\* The call failed with a configuration error naming provider n's key,
\* having built no SDK handle and made no request.
FailedNamingKey(n) ==
    /\ last.out.raised
    /\ last.out.exc = "ValueError"
    /\ HasToken(last.out.msg, CredentialName(n))
    /\ HasToken(last.out.msg, " API key is required")
    /\ last.out.events = <<>>
    /\ last.out.ret = NoClient

\* C1 as stated: for openai, anthropic and google and every client_type,
\* create_client with a missing or empty api_key fails with a configuration
\* error that names the missing credential, before any network activity.
C1_MissingKeyAlwaysNamed ==
    \A n \in CredentialProviders : MissingKeyCall(n) => FailedNamingKey(n)

\* C1 amended: the same, for a provider whose package is installed.
C1_MissingKeyNamedWhenInstalled ==
    \A n \in CredentialProviders :
        (MissingKeyCall(n) /\ available_providers[n]) => FailedNamingKey(n)

C1_Witness ==
    /\ MissingKeyCall(GOOGLE)
    /\ Get(last.kwargs, "api_key", PyNone) = PyStr(<<>>)
    /\ Get(last.kwargs, "client_type", PyNone) = PyStr(<<"seo_analyzer">>)
    /\ available_providers[GOOGLE]
    /\ FailedNamingKey(GOOGLE)

\* The last call was create_client for the registered provider n with a
\* client_type that is none of the four.
UnknownTypeCall(n) ==
    /\ last.op = "create_client"
    /\ n \in KeySet(providers)
    /\ IsCasingOf(last.provider, n)
    /\ "client_type" \in DOMAIN last.kwargs
    /\ last.kwargs["client_type"].v \notin FourTypes

FailedListingTypes ==
    /\ last.out.raised
    /\ \A t \in FourTypes : Contains(last.out.msg, t)

\* C2 as stated: for every registered provider, create_client with a
\* client_type outside the four fails with an error whose message contains
\* all four valid client types.
C2_UnknownTypeAlwaysListed ==
    \A n \in CredentialProviders : UnknownTypeCall(n) => FailedListingTypes

\* C2 amended: the same, when the provider's package is installed and the
\* api_key is not empty.
C2_UnknownTypeListedWhenKeyed ==
    \A n \in CredentialProviders :
        (/\ UnknownTypeCall(n)
         /\ available_providers[n]
         /\ ~Falsy(Get(last.kwargs, "api_key", PyNone)))
            => FailedListingTypes

C2_Witness ==
    /\ UnknownTypeCall(GOOGLE)
    /\ ~Falsy(Get(last.kwargs, "api_key", PyNone))
    /\ last.out.exc = "ValueError"
    /\ FailedListingTypes

RECURSIVE SplitOn(_, _)
\* s.split(sep) for a one-token separator.
SplitOn(s, sep) ==
    IF ~HasToken(s, sep) THEN <<s>>
    ELSE LET i == CHOOSE i \in DOMAIN s :
                      s[i] = sep /\ \A j \in 1..(i - 1) : s[j] # sep
         IN  <<SubSeq(s, 1, i - 1)>> \o SplitOn(SubSeq(s, i + 1, Len(s)), sep)

\* The names an "Unknown provider" message lists.
ListedProviders(msg) ==
    LET i == CHOOSE i \in DOMAIN msg : msg[i] = ". Available providers: "
    IN  IF i = Len(msg) THEN <<>> ELSE SplitOn(SubSeq(msg, i + 1, Len(msg)), ", ")

Registered(p, provs) == \E n \in KeySet(provs) : IsCasingOf(p, n)

\* C3: a create_client call naming a provider that is not registered fails
\* with an error listing exactly the keys the registry holds at that moment,
\* and creates no client.
C3_UnknownProviderListsLiveRegistry ==
    [][(last'.op = "create_client" /\ ~Registered(last'.provider, providers))
        => (/\ last'.out.raised
            /\ last'.out.exc = "ValueError"
            /\ Head(last'.out.msg) = "Unknown provider: "
            /\ ListedProviders(last'.out.msg) = Keys(providers)
            /\ last'.out.ret = NoClient
            /\ clients' = clients
            /\ providers' = providers)]_vars

C3_Witness ==
    /\ last.op = "create_client"
    /\ last.provider = AZURE
    /\ last.out.raised
    /\ ListedProviders(last.out.msg) = <<OPENAI, GOOGLE, OLLAMA>>
    /\ Keys(providers) = <<OPENAI, GOOGLE, OLLAMA>>

UnknownProviderError ==
    /\ last.out.raised
    /\ last.out.exc = "ValueError"
    /\ Head(last.out.msg) = "Unknown provider: "

\* C4: create_client takes openai, anthropic, google and ollama in every
\* letter-casing and hands the call to that provider's creation method; every
\* other string is rejected as an unknown provider.
C4_FourProvidersAnyCasing ==
    last.op = "create_client" =>
        IF \E n \in FourNames : IsCasingOf(last.provider, n)
        THEN ~UnknownProviderError
        ELSE UnknownProviderError

\* C5: create_client("ollama", model=..., client_type=t) without an api_key
\* returns a client for every valid client type t.
C5_OllamaNeedsNoKey ==
    (/\ last.op = "create_client"
     /\ last.provider = OLLAMA
     /\ "api_key" \notin DOMAIN last.kwargs
     /\ Get(last.kwargs, "client_type", PyStr(<<"summarizer">>)).v \in FourTypes)
        => (~last.out.raised /\ last.out.ret.cls = "client")

\* The sentinel fetch_website_content returns for a failure.
IsSentinel(data, url) ==
    /\ data.url = url
    /\ data.title = PyStr(<<"Error">>)
    /\ data.text.ty = "str"
    /\ Len(data.text.v) > 1
    /\ Head(data.text.v) = "Failed to fetch website: "

FailureMessage(answer) ==
    IF answer.kind = "neterr" THEN answer.msg ELSE answer.parse.msg

ReturnsSentinel ==
    /\ IsSentinel(last.out.ret, last.url)
    /\ (last.answer.kind = "neterr" \/ last.answer.parse.t = "parse_error")
         => \/ last.out.ret.text.v = <<"Failed to fetch website: ">> \o FailureMessage(last.answer)
            \/ (last.answer.kind = "response" /\ last.answer.status >= 400)

\* C6 as stated: fetch_website_content never raises, and any network
\* failure, non-2xx status or parsing failure yields {url, title "Error",
\* text "Failed to fetch website: <message>"}.
C6_AnyNon2xxIsSentinel ==
    last.op = "fetch_website_content" =>
        /\ ~last.out.raised
        /\ (\/ last.answer.kind = "neterr"
            \/ last.answer.status < 200
            \/ last.answer.status > 299
            \/ last.answer.parse.t = "parse_error") => ReturnsSentinel

\* C6 amended: fetch_website_content never raises, and any network failure,
\* 4xx or 5xx status or parsing failure yields that value.
C6_HttpErrorIsSentinel ==
    last.op = "fetch_website_content" =>
        /\ ~last.out.raised
        /\ (\/ last.answer.kind = "neterr"
            \/ (400 <= last.answer.status /\ last.answer.status <= 599)
            \/ last.answer.parse.t = "parse_error") => ReturnsSentinel

C6_Witness ==
    /\ last.op = "fetch_website_content"
    /\ last.answer.kind = "response"
    /\ last.answer.status = 404
    /\ ~last.out.raised
    /\ last.out.ret.title = PyStr(<<"Error">>)
    /\ last.out.ret.url = last.url

\* C7: every WebsiteData fetch_website_content returns has a string as its
\* title and a string as its text, whatever the document.
C7_TitleAndTextAreStrings ==
    last.op = "fetch_website_content" =>
        /\ last.out.ret.title.ty = "str"
        /\ last.out.ret.text.ty = "str"

\* The last call was process on a client, with a URL whose host refused the
\* connection.
ProcessUnreachable ==
    /\ last.op = "process"
    /\ last.answer.kind = "neterr"

ReturnedText == ~last.out.raised /\ last.out.ret.ty = "str"

\* The call passed what the client's prompt needs: target_info for the
\* extractor.
HasPromptArguments ==
    clients[last.client].client_type = <<"content_extractor">> => last.args # <<>>

\* C8 as stated: for every (provider, client_type) the factory supports,
\* process on a valid URL with an unreachable host never raises; it returns
\* text.
C8_UnreachableNeverRaises == ProcessUnreachable => ReturnedText

\* C8 amended: process, called with the arguments its prompt needs, does not
\* raise on account of the unreachable host; it returns text whenever the
\* remote completion succeeds, and for a Google client also when it fails.
C8_UnreachableReturnsTextWhenBackendAnswers ==
    (/\ ProcessUnreachable
     /\ HasPromptArguments
     /\ (last.backend.kind = "ok" \/ clients[last.client].provider = GOOGLE))
        => ReturnedText

C8_Witness ==
    /\ ProcessUnreachable
    /\ clients[last.client].provider = ANTHROPIC
    /\ clients[last.client].client_type = <<"content_extractor">>
    /\ last.args # <<>>
    /\ last.backend.kind = "ok"
    /\ ReturnedText
    /\ last.out.data.title = PyStr(<<"Error">>)

RECURSIVE Count(_, _)
\* How many times e occurs in the sequence s.
Count(s, e) ==
    IF s = <<>> THEN 0
    ELSE (IF Head(s) = e THEN 1 ELSE 0) + Count(Tail(s), e)

\* C9: when the backend answers every request with the text T, process on a
\* summarizer returns exactly T, having fetched the page once and built the
\* prompts once.
C9_SummarizerReturnsBackendText ==
    (/\ last.op = "process"
     /\ clients[last.client].client_type = <<"summarizer">>
     /\ last.backend.kind = "ok")
        => (/\ ~last.out.raised
            /\ last.out.ret = PyStr(last.backend.text)
            /\ Count(last.out.events, "fetch_website_content") = 1
            /\ Count(last.out.events, "requests.get") = 1
            /\ Count(last.out.events, "get_system_prompt") = 1
            /\ Count(last.out.events, "get_user_prompt") = 1)

C9_Witness ==
    /\ last.op = "process"
    /\ clients[last.client].client_type = <<"summarizer">>
    /\ clients[last.client].provider = OPENAI
    /\ last.url = SiteTest
    /\ last.backend.kind = "ok"
    /\ last.out.ret = PyStr(<<"SUMMARY">>)

\* The remote completion step of a Google client's process was reached and
\* failed.
GoogleBackendFailed ==
    /\ last.op = "process"
    /\ clients[last.client].provider = GOOGLE
    /\ last.backend.kind = "error"
    /\ Count(last.out.events, "GenerativeModel") > 0

\* C10: in the Google mixin a failure of GenerativeModel(...) or of
\* generate_content never leaves process as an exception; process returns a
\* string that starts with "Error", holding the available models and the
\* original error when list_models succeeds, and only the original error
\* when it fails too.
C10_GoogleFailureIsErrorText ==
    GoogleBackendFailed =>
        /\ ReturnedText
        /\ Head(last.out.ret.v) = "Error"
        /\ Contains(last.out.ret.v, last.backend.msg)
        /\ last.backend.list.ok =>
               /\ HasToken(last.out.ret.v, "'. Available models: ")
               /\ \A i \in DOMAIN last.backend.list.names :
                      Contains(last.out.ret.v, last.backend.list.names[i])
        /\ ~last.backend.list.ok =>
               last.out.ret.v =
                   <<"Error", " with Gemini model '">>
                       \o clients[last.client].model.v \o <<"': ">> \o last.backend.msg

C10_Witness ==
    /\ GoogleBackendFailed
    /\ last.backend.at = "generate"
    /\ last.backend.list.ok
    /\ ReturnedText
    /\ Contains(last.out.ret.v, <<"models/gemini-1.5-flash">>)

C10_WitnessListingFails ==
    /\ GoogleBackendFailed
    /\ last.backend.at = "construct"
    /\ ~last.backend.list.ok
    /\ ReturnedText

\* The last call was process on an OpenAI-style or Anthropic-style adapter,
\* and its remote completion call was made and failed.
RemoteCompletionFailed ==
    /\ last.op = "process"
    /\ clients[last.client].provider \in {OPENAI, ANTHROPIC}
    /\ last.backend.kind = "error"
    /\ last.out.request.sent

\* The last run of the app was started by a tab's button, and an exception
\* left the tab's try block.
TabRaised ==
    /\ last.op = "main"
    /\ last.clicked \in TabButtons
    /\ last.out.events # <<>>
    /\ last.out.shown.kind # "markdown"

CompletionCall(p) ==
    CASE p = OPENAI -> "chat.completions.create"
      [] p = ANTHROPIC -> "messages.create"
      [] p = GOOGLE -> "generate_content"

\* The first call of the remote completion step: the Google mixin builds the
\* model object before it calls generate_content.
CompletionStep(p) == IF p = GOOGLE THEN "GenerativeModel" ELSE CompletionCall(p)

\* The place of the first e in s.
FirstIndex(s, e) == CHOOSE i \in DOMAIN s : s[i] = e /\ \A j \in 1..(i - 1) : s[j] # e

\* The Google step ended while building the model object.
FailedConstructing ==
    /\ clients[last.client].provider = GOOGLE
    /\ last.backend.kind = "error"
    /\ last.backend.at = "construct"

\* C12 as stated: every process call performs exactly one website fetch
\* followed by exactly one remote-completion call, in that order, and neither
\* a second time.
C12_AlwaysOneFetchOneCompletion ==
    last.op = "process" =>
        LET ev == last.out.events
            call == CompletionCall(clients[last.client].provider)
        IN  /\ Count(ev, "fetch_website_content") = 1
            /\ Count(ev, "requests.get") = 1
            /\ Count(ev, call) = 1
            /\ FirstIndex(ev, "requests.get") < FirstIndex(ev, call)

\* C12 amended: every process call starts with exactly one website fetch;
\* called with the arguments its prompt needs it goes on to exactly one
\* remote completion step, after the fetch, with its completion call made
\* once (not at all when a Google step ends while building the model object);
\* called without them it raises TypeError and makes no completion call.
C12_OneFetchThenOneCompletionStep ==
    last.op = "process" =>
        LET ev == last.out.events
            p == clients[last.client].provider
        IN  /\ Count(ev, "fetch_website_content") = 1
            /\ Count(ev, "requests.get") = 1
            /\ SubSeq(ev, 1, 2) = <<"fetch_website_content", "requests.get">>
            /\ HasPromptArguments =>
                   /\ Count(ev, CompletionStep(p)) = 1
                   /\ FirstIndex(ev, CompletionStep(p)) > 2
                   /\ Count(ev, CompletionCall(p)) = IF FailedConstructing THEN 0 ELSE 1
            /\ ~HasPromptArguments =>
                   /\ Count(ev, CompletionStep(p)) = 0
                   /\ Count(ev, CompletionCall(p)) = 0
                   /\ last.out.raised
                   /\ last.out.exc = "TypeError"

C12_Witness ==
    /\ last.op = "process"
    /\ clients[last.client].provider = OPENAI
    /\ last.answer.kind = "neterr"
    /\ last.backend.kind = "error"
    /\ last.out.events = <<"fetch_website_content", "requests.get", "get_system_prompt",
                           "get_user_prompt", "chat.completions.create">>

\* The SDK calls that send a request to a provider's backend.
BackendCalls ==
    {"chat.completions.create", "messages.create", "generate_content", "list_models"}

\* How many requests to the backend the calls in ev sent.
BackendRequests(ev) == Cardinality({i \in DOMAIN ev : ev[i] \in BackendCalls})

\* C13 as stated: every adapter issues exactly one outbound request to its
\* provider backend per process call, on the success path and on every
\* failure path.
C13_AlwaysOneBackendRequest ==
    last.op = "process" => BackendRequests(last.out.events) = 1

\* C13 amended: an OpenAI or Anthropic adapter whose prompts could be built
\* issues exactly one request, whether it succeeds or fails; a Google adapter
\* issues one when its remote step succeeds and, when it fails, the
\* list_models request on top of the generate_content request it made (none
\* when the model object could not be built); a call that cannot build its
\* prompt issues none.
C13_OneRequestButGoogleListsOnFailure ==
    last.op = "process" =>
        LET ev == last.out.events
            p == clients[last.client].provider
        IN  /\ ~HasPromptArguments => BackendRequests(ev) = 0
            /\ (HasPromptArguments /\ p \in {OPENAI, ANTHROPIC}) =>
                   /\ BackendRequests(ev) = 1
                   /\ Count(ev, CompletionCall(p)) = 1
            /\ (HasPromptArguments /\ p = GOOGLE /\ last.backend.kind = "ok") =>
                   /\ BackendRequests(ev) = 1
                   /\ Count(ev, "generate_content") = 1
            /\ (HasPromptArguments /\ p = GOOGLE /\ last.backend.kind = "error") =>
                   /\ Count(ev, "list_models") = 1
                   /\ ev[Len(ev)] = "list_models"
                   /\ BackendRequests(ev) = IF FailedConstructing THEN 1 ELSE 2

C13_Witness ==
    /\ last.op = "process"
    /\ clients[last.client].provider = GOOGLE
    /\ last.backend.kind = "error"
    /\ last.backend.at = "generate"
    /\ BackendRequests(last.out.events) = 2
    /\ ~last.out.raised

\* What client c sends its requests with: the key of its SDK handle (the key
\* google.generativeai is configured with, for a Google client, whose handle
\* is the module), its model, its handle and its headers.
RequestsWith(c, genai) ==
    [credential |-> IF c.provider = GOOGLE THEN genai ELSE c.client.api_key,
     model |-> c.model, handle |-> c.client, headers |-> c.headers]

\* C14: whatever create_client and process calls follow, every client keeps
\* the credential, the model, the SDK handle and the headers it was created
\* with.
C14_ClientsKeepWhatTheyWereCreatedWith ==
    [][\A i \in DOMAIN clients :
           RequestsWith(clients'[i], genai_api_key') =
               RequestsWith(clients[i], genai_api_key)]_vars

\* The last call was process, and its fetch stage failed: the connection was
\* refused, the status was an error status, or the markup was rejected.
FetchStageFailed ==
    /\ last.op = "process"
    /\ \/ last.answer.kind = "neterr"
       \/ RaisesForStatus(last.answer.status)
       \/ last.answer.parse.t = "parse_error"

\* The text a request carries the user prompt in.
PromptSent(request) ==
    CASE request.api = "chat.completions.create" -> request.messages[2].content
      [] request.api = "messages.create" -> request.messages[1].content
      [] request.api = "generate_content" -> request.prompt

\* The request of the last call carries the failure text of the WebsiteData
\* the call fetched.
SentFailureText ==
    /\ last.out.request.sent
    /\ Head(last.out.data.text.v) = "Failed to fetch website: "
    /\ Contains(PromptSent(last.out.request), last.out.data.text.v)

\* C15 as stated: whenever the fetch stage of process fails, process still
\* builds the prompts from the sentinel WebsiteData and still performs the
\* remote-completion call, whose user prompt contains the failure text.
C15_FetchErrorAlwaysReachesCompletion ==
    FetchStageFailed =>
        /\ IsSentinel(last.out.data, last.url)
        /\ Count(last.out.events, CompletionCall(clients[last.client].provider)) = 1
        /\ SentFailureText

\* C15 amended: whenever the fetch stage fails, process goes on with the
\* sentinel WebsiteData; given the arguments its prompt needs, it builds both
\* prompts once and enters the remote completion step, and the request it
\* sends (every one but a Google step that ends while building the model
\* object) carries the failure text in its user prompt.
C15_FetchErrorGoesOnToCompletion ==
    FetchStageFailed =>
        LET ev == last.out.events
            p == clients[last.client].provider
        IN  /\ IsSentinel(last.out.data, last.url)
            /\ HasPromptArguments =>
                   /\ Count(ev, "get_system_prompt") = 1
                   /\ Count(ev, "get_user_prompt") = 1
                   /\ Count(ev, CompletionStep(p)) = 1
                   /\ ~FailedConstructing =>
                          /\ Count(ev, CompletionCall(p)) = 1
                          /\ SentFailureText

C15_Witness ==
    /\ FetchStageFailed
    /\ last.answer.kind = "response"
    /\ last.answer.status = 404
    /\ clients[last.client].provider = OPENAI
    /\ last.backend.kind = "ok"
    /\ SentFailureText
    /\ Contains(PromptSent(last.out.request), <<"Client Error for url">>)
    /\ ~last.out.raised

\* The last call was get_user_prompt of an extractor, with a target_info.
ExtractorPrompted ==
    /\ last.op = "get_user_prompt"
    /\ clients[last.client].client_type = <<"content_extractor">>
    /\ last.args # <<>>
    /\ last.args[1].ty = "str"

\* s is a, then b, then c, with other text before, between and after.
ContainsInOrder(s, a, b, c) ==
    \E i \in 0..Len(s), j \in 0..Len(s), k \in 0..Len(s) :
        /\ i + Len(a) <= j
        /\ j + Len(b) <= k
        /\ k + Len(c) <= Len(s)
        /\ SubSeq(s, i + 1, i + Len(a)) = a
        /\ SubSeq(s, j + 1, j + Len(b)) = b
        /\ SubSeq(s, k + 1, k + Len(c)) = c

\* C16: for every WebsiteData and every target_info string, the empty one
\* too, the extractor's user prompt is built without an error and contains
\* the title (as str() renders it), the target_info exactly as given, and
\* the text.
C16_ExtractorPromptHoldsTargetVerbatim ==
    ExtractorPrompted =>
        /\ ~last.out.raised
        /\ Contains(last.out.v, Format(last.website_data.title))
        /\ Contains(last.out.v, last.args[1].v)
        /\ Contains(last.out.v, Format(last.website_data.text))
        /\ ContainsInOrder(last.out.v, Format(last.website_data.title),
                           last.args[1].v, Format(last.website_data.text))

C16_Witness ==
    /\ ExtractorPrompted
    /\ last.website_data.title = PyStr(<<"A", "c", "m", "e">>)
    /\ last.args[1] = PyStr(<<" ", "C", "E", "O", "\n">>)
    /\ Contains(last.out.v, <<"A", "c", "m", "e">>)
    /\ Contains(last.out.v, <<" ", "C", "E", "O", "\n">>)

C16_WitnessEmptyTarget ==
    /\ ExtractorPrompted
    /\ last.args[1] = PyStr(<<>>)
    /\ last.website_data.title = PyStr(<<"A", "c", "m", "e">>)
    /\ ~last.out.raised

\* The last run of the app was an analysis: a tab's button was clicked with a
\* URL in the tab and a key in the sidebar.
AnalysisRun ==
    /\ last.op = "main"
    /\ last.clicked \in TabButtons
    /\ ~Falsy(last.url)
    /\ ~Falsy(last.api_key)

HistoryFields == {"url", "provider", "model", "client_type", "result"}

\* C17: an analysis whose page is fetched and whose backend answers appends
\* one entry {url, provider, model, client_type, result} to the end of the
\* history and leaves the earlier entries as they were; the history gets
\* shorter only by Clear History, which also resets the current result.
C17_SuccessfulAnalysisAppendsEntry ==
    [][/\ (AnalysisRun' /\ last'.answer = AppPage /\ last'.backend.kind = "ok") =>
              LET before == session_state.history
                  after == session_state'.history
              IN  /\ Len(after) = Len(before) + 1
                  /\ SubSeq(after, 1, Len(before)) = before
                  /\ DOMAIN after[Len(after)] = HistoryFields
                  /\ after[Len(after)].url = last'.url
                  /\ after[Len(after)].result = PyStr(last'.backend.text)
       /\ Len(session_state'.history) < Len(session_state.history) =>
              /\ last'.op = "main"
              /\ last'.clicked = "Clear History"
              /\ session_state'.history = <<>>
              /\ session_state'.current_result = PyStr(<<>>)]_vars

\* C18: app.py and usage_example.py call create_client for "openai" without
\* an api_key, so the call raises; every analysis of the app ends in the
\* tab's error branch before process is called, and in every state of a
\* session the history is empty and current_result is the empty string.
C18_NoAnalysisEverSucceeds ==
    /\ session_state.history = <<>>
    /\ session_state.current_result = PyStr(<<>>)
    /\ AnalysisRun =>
           /\ last.out.shown =
                  ShowError(<<TabErrorPrefix(last.clicked), "OpenAI", " API key is required">>)
           /\ last.out.events = <<"create_factory", "create_client">>
           /\ Count(last.out.events, "process") = 0
    /\ (/\ last.op = "create_client"
        /\ last.provider = OPENAI
        /\ "api_key" \notin DOMAIN last.kwargs) =>
           /\ last.out.raised
           /\ last.out.exc = "ValueError"
           /\ last.out.msg = <<"OpenAI", " API key is required">>

C18_Witness ==
    /\ AnalysisRun
    /\ last.clicked = "extractor_btn"
    /\ last.api_key = PyStr(<<"k1">>)
    /\ last.backend.kind = "ok"
    /\ last.out.shown.kind = "error"
    /\ session_state.api_key = PyStr(<<"k1">>)
    /\ session_state.history = <<>>

\* The registered name the last create_client call asked for, in any
\* letter-casing.
AskedFor(n) == last.op = "create_client" /\ IsCasingOf(last.provider, n)

KeyMissing == Falsy(Get(last.kwargs, "api_key", PyNone))

TypeUnknown ==
    Get(last.kwargs, "client_type", PyStr(<<"summarizer">>)).v \notin FourTypes

FailedWith(exc) ==
    /\ last.out.raised
    /\ last.out.exc = exc
    /\ last.out.ret = NoClient

C20_FailedCreateChangesNothing ==
    [][(last'.op = "create_client" /\ last'.out.raised) =>
           /\ providers' = providers
           /\ available_providers' = available_providers
           /\ headers' = headers
           /\ clients' = clients
           /\ genai_api_key' = genai_api_key]_vars

\* The elements of a list.
Elements(list) == {list[i] : i \in DOMAIN list}

\* The last call was create_client(p, client_type=t) with a key, for a p
\* whose package, if p is registered, is installed.
CreatedWithKeyAndType ==
    /\ last.op = "create_client"
    /\ "client_type" \in DOMAIN last.kwargs
    /\ ~Falsy(Get(last.kwargs, "api_key", PyNone))
    /\ \A n \in KeySet(providers) :
           IsCasingOf(last.provider, n) => available_providers[n]

\* C21: the three listings agree with what create_client accepts.
\* create_client(p, client_type=t), with a key and the package installed,
\* returns a client exactly when p is a registry key in some casing and t is
\* in get_available_client_types(); get_available_providers() lists only
\* registry keys (those whose package is installed); get_available_models(p)
\* returns a list exactly for the registered providers and raises ValueError
\* for every other name.
C21_ListingsAgreeWithCreateClient ==
    /\ CreatedWithKeyAndType =>
           (~last.out.raised <=>
               (/\ Registered(last.provider, providers)
                /\ last.kwargs["client_type"].v \in Elements(GetAvailableClientTypes)))
    /\ last.op = "get_available_providers" =>
           /\ ~last.out.raised
           /\ Elements(last.out.ret) \subseteq KeySet(providers)
           /\ Elements(last.out.ret) =
                  {n \in KeySet(providers) : available_providers[n]}
    /\ last.op = "get_available_models" =>
           IF Registered(last.provider, providers)
           THEN ~last.out.raised /\ Len(last.out.ret) > 0
           ELSE last.out.raised /\ last.out.exc = "ValueError" /\ last.out.ret = <<>>
    /\ last.op = "get_available_client_types" =>
           /\ ~last.out.raised
           /\ Elements(last.out.ret) = FourTypes

C21_Witness ==
    /\ CreatedWithKeyAndType
    /\ last.provider = Upper(GOOGLE)
    /\ last.kwargs["client_type"] = PyStr(<<"seo_analyzer">>)
    /\ ~last.out.raised
    /\ GetAvailableModels(last.provider).ret = GoogleModels
    /\ GOOGLE \in Elements(GetAvailableProviders(available_providers))

C21_WitnessUnknownName ==
    /\ last.op = "get_available_models"
    /\ last.provider = OLLAMA
    /\ last.out.raised
    /\ ~Registered(OLLAMA, providers)

====
